---- MODULE Spec2Model ----
(***************************************************************************)
(* Model of src/app.py, the Business Insights Dashboard script.            *)
(*                                                                         *)
(* The script is a Streamlit page: the whole file runs top to bottom once  *)
(* when the page is opened and once more after every widget change.  The   *)
(* table is read and normalised by load_data on the first run and served   *)
(* from the st.cache_data cache afterwards.                                *)
(*                                                                         *)
(* Text is modelled as a sequence of one-character strings, so that        *)
(* split / strip / lower / the regular expressions are computed rather     *)
(* than assumed.  A missing cell is NaN (what pd.read_csv yields for an     *)
(* empty cell) or NA (the pd.NA that line 43 puts in every cell of a       *)
(* column the file lacks); neither is a text.                              *)
(***************************************************************************)
EXTENDS Integers, Sequences, FiniteSets

\* ------------------------------------------------------------------ bounds
\* longest table drawn for the dashboard specification
MaxRows == 3
\* longest keywords text enumerated character by character
MaxKwLen == 4
\* longest keywords text of the form "a,a,...,a" (number of tokens)
MaxTokens == 11

\* --------------------------------------------------------- program constants
W_EMAIL == 40
W_PHONE == 30
W_WEBSITE == 20
KW_CAP == 10
PHONE_MIN_LEN == 6

\* ------------------------------------------------------------------- text
NaN == <<"NaN">>
NA == <<"NA">>

NoWebsite == <<"N","o"," ","W","e","b","s","i","t","e">>
NoEmail == <<"N","o"," ","E","m","a","i","l">>
NanText == <<"n","a","n">>
NaText == <<"<","N","A",">">>

Upper == <<"A","B","C","D","E","F","G","H","I","J","K","L","M",
           "N","O","P","Q","R","S","T","U","V","W","X","Y","Z">>
Lower == <<"a","b","c","d","e","f","g","h","i","j","k","l","m",
           "n","o","p","q","r","s","t","u","v","w","x","y","z">>

\* characters that Python's str.strip() removes and that the regex \s matches
IsSpace(c) == c \in {" ", "\t", "\n", "\r"}

Bool2Int(b) == IF b THEN 1 ELSE 0

MinOf(S) == CHOOSE x \in S : \A y \in S : x <= y
MaxOf(S) == CHOOSE x \in S : \A y \in S : x >= y

\* str.lower(), one character
lower_char(c) ==
    IF \E i \in 1..Len(Upper) : Upper[i] = c
    THEN Lower[CHOOSE i \in 1..Len(Upper) : Upper[i] = c]
    ELSE c

\* str.lower()
str_lower(s) == [i \in 1..Len(s) |-> lower_char(s[i])]

\* str.strip()
str_strip(s) ==
    LET keep == {i \in 1..Len(s) : ~IsSpace(s[i])}
    IN  IF keep = {} THEN <<>> ELSE SubSeq(s, MinOf(keep), MaxOf(keep))

\* str.split(sep): the fields between the separators, empty fields included
RECURSIVE str_split(_, _)
str_split(s, sep) ==
    LET at == {i \in 1..Len(s) : s[i] = sep}
    IN  IF at = {} THEN <<s>>
        ELSE <<SubSeq(s, 1, MinOf(at) - 1)>>
                 \o str_split(SubSeq(s, MinOf(at) + 1, Len(s)), sep)

\* pd.isna
isna(v) == v \in {NaN, NA}

\* Series.fillna(default)
fillna(v, default) == IF isna(v) THEN default ELSE v

\* Series.astype(str): a missing cell becomes the text "nan" or "<NA>"
astype_str(v) == IF v = NaN THEN NanText ELSE IF v = NA THEN NaText ELSE v

\* one character of the class [^@\s]
IsAddrChar(c) == c # "@" /\ ~IsSpace(c)

\* re.fullmatch of [^@\s]+ on s[a..b]
AddrRun(s, a, b) == a <= b /\ \A i \in a..b : IsAddrChar(s[i])

\* ^[^@\s]+@[^@\s]+\.[^@\s]+ matched from the first character of s up to
\* and including position n
EmailUpTo(s, n) ==
    \E i \in 1..n : \E j \in 1..n :
        /\ i < j
        /\ s[i] = "@"
        /\ s[j] = "."
        /\ AddrRun(s, 1, i - 1)
        /\ AddrRun(s, i + 1, j - 1)
        /\ AddrRun(s, j + 1, n)

\* str.contains(r"^[^@\s]+@[^@\s]+\.[^@\s]+$"): re.search; "$" matches at
\* the end of the text and also just before one trailing newline
email_match(s) ==
    \/ EmailUpTo(s, Len(s))
    \/ Len(s) > 0 /\ s[Len(s)] = "\n" /\ EmailUpTo(s, Len(s) - 1)

\* str.contains(r"\.")
contains_dot(s) == \E i \in 1..Len(s) : s[i] = "."


\* ------------------------------------------------------------- load_data
\* A row of the table pd.read_csv returns, after lines 41-43 have added
\* every expected column that the file lacks (as an all-missing column):
\* each cell is a text, NaN or NA; the fields are co_name, contact, email,
\* phone, city, website and keywords.

\* the keyword term of lead_score: the number of comma-separated fields of
\* the text that are not blank
keyword_count(s) ==
    Len(SelectSeq(str_split(s, ","), LAMBDA k : str_strip(k) # <<>>))

\* the cap of the keyword term is missing
lead_score_uncapped(has_email, has_phone, has_website, keywords) ==
    Bool2Int(has_email) * W_EMAIL
    + Bool2Int(has_phone) * W_PHONE
    + Bool2Int(has_website) * W_WEBSITE
    + keyword_count(fillna(keywords, <<>>))

lead_score(has_email, has_phone, has_website, keywords) ==
    LET n == keyword_count(fillna(keywords, <<>>))
    IN  Bool2Int(has_email) * W_EMAIL
        + Bool2Int(has_phone) * W_PHONE
        + Bool2Int(has_website) * W_WEBSITE
        + (IF KW_CAP < n THEN KW_CAP ELSE n)

\* the tokens are not trimmed
keywords_norm_untrimmed(keywords) ==
    SelectSeq(str_split(str_lower(fillna(keywords, <<>>)), ","),
              LAMBDA x : str_strip(x) # <<>>)

keywords_norm(keywords) ==
    LET lst == str_split(str_lower(fillna(keywords, <<>>)), ",")
        kept == SelectSeq(lst, LAMBDA x : str_strip(x) # <<>>)
    IN  [i \in 1..Len(kept) |-> str_strip(kept[i])]

has_email(email) == email_match(email)
has_website(website) == contains_dot(website) /\ website # NoWebsite
has_phone(phone) == Len(phone) > PHONE_MIN_LEN

\* one row of the frame load_data returns
load_row(r) ==
    LET website == fillna(r.website, NoWebsite)
        email   == fillna(r.email, NoEmail)
        phone   == astype_str(r.phone)
    IN  [ co_name       |-> astype_str(r.co_name),
          contact       |-> astype_str(r.contact),
          email         |-> email,
          phone         |-> phone,
          city          |-> astype_str(r.city),
          website       |-> website,
          keywords      |-> r.keywords,
          has_email     |-> has_email(email),
          has_website   |-> has_website(website),
          has_phone     |-> has_phone(phone),
          lead_score    |-> lead_score(has_email(email), has_phone(phone),
                                       has_website(website), r.keywords),
          keywords_norm |-> keywords_norm(r.keywords) ]

load_data(table) == [i \in 1..Len(table) |-> load_row(table[i])]

\* --------------------------------------------------------------- sidebar
Rows(t) == {t[i] : i \in 1..Len(t)}

\* options of the City multiselect
all_cities(df_) == {c \in {r.city : r \in Rows(df_)} : ~isna(c)}

\* options of the Service/Keyword multiselect
all_services(df_) ==
    UNION {{r.keywords_norm[k] : k \in 1..Len(r.keywords_norm)} : r \in Rows(df_)}

min_ls(df_) == MinOf({r.lead_score : r \in Rows(df_)})
max_ls(df_) == MaxOf({r.lead_score : r \in Rows(df_)})

\* a record without keywords passes the keyword filter
kw_match_or_none(lst, services) ==
    lst = <<>> \/ \E k \in services : \E i \in 1..Len(lst) : lst[i] = k

\* any(k in lst for k in sel_services)
kw_match(lst, services) ==
    \E k \in services : \E i \in 1..Len(lst) : lst[i] = k

\* apply_filters.  The selections are sets: isin and any() do not depend on
\* the order in which the user picked them.
\*
\* The result is [raised, out].  When no row passes the city filter and a
\* keyword is selected, line 97 indexes the empty frame with the result of
\* Series.apply on an empty column.  That result is an empty Series of
\* dtype object, not of dtype bool; DataFrame.__getitem__ does not take an
\* empty object array for a boolean mask and reads it as an empty list of
\* column labels, so `out` becomes a frame without columns and line 98,
\* out["lead_score"], raises KeyError.
apply_filters(df_, cities, services, lo, hi) ==
    LET out1 == SelectSeq(df_, LAMBDA r : r.city \in cities)
        out2 == IF services # {}
                THEN SelectSeq(out1, LAMBDA r : kw_match(r.keywords_norm, services))
                ELSE out1
        out3 == SelectSeq(out2, LAMBDA r : r.lead_score >= lo /\ r.lead_score <= hi)
    IN  IF services # {} /\ Len(out1) = 0
        THEN [raised |-> TRUE, out |-> <<>>]
        ELSE [raised |-> FALSE, out |-> out3]


\* ------------------------------------------------------------------ tabs
\* counts the distinct companies of each city instead of its rows
value_counts_distinct(view) ==
    LET cities == {c \in {r.city : r \in Rows(view)} : ~isna(c)}
    IN  [c \in cities |-> Cardinality({r.co_name : r \in {q \in Rows(view) : q.city = c}})]

\* filtered_df["city"].value_counts(): for every city of the view (missing
\* values dropped) the number of rows with it.  The order of the result's
\* rows is not modelled.
value_counts(view) ==
    LET cities == {c \in {r.city : r \in Rows(view)} : ~isna(c)}
    IN  [c \in cities |-> Cardinality({i \in 1..Len(view) : view[i].city = c})]

CityPrefix == <<"c","i","t","y",":",":">>
CoPrefix == <<"c","o",":",":">>

\* the node is the bare city text, without the "city::" namespace
city_node_bare(r) == r.city

city_node(r) == CityPrefix \o r.city
comp_node(r) == CoPrefix \o r.co_name

EmptyGraph == [nodes |-> {}, type |-> <<>>, score |-> <<>>, edges |-> {}]

\* G after the loop of lines 222-227 over the first n rows of the view.
\* nodes: the node keys; type, score: the node attributes (add_node on a
\* node that exists updates its attributes); edges: the two-element sets of
\* an undirected simple graph (add_edge on an edge that exists adds nothing).
RECURSIVE build_graph(_, _)
build_graph(view, n) ==
    IF n = 0 THEN EmptyGraph
    ELSE LET g  == build_graph(view, n - 1)
             r  == view[n]
             cn == city_node(r)
             co == comp_node(r)
             ns == g.nodes \cup {cn, co}
             scored == (DOMAIN g.score) \cup {co}
         IN  [ nodes |-> ns,
               type  |-> [x \in ns |-> IF x = co THEN "company"
                                       ELSE IF x = cn THEN "city"
                                       ELSE g.type[x]],
               score |-> [x \in scored |-> IF x = co THEN r.lead_score
                                           ELSE g.score[x]],
               edges |-> g.edges \cup {{cn, co}} ]

\* betweenness centrality is computed whatever the graph
network_step_unguarded(g) == "centrality"

\* lines 230-237: which branch runs.  The centrality values themselves are
\* not modelled.
network_step(g) ==
    IF Cardinality(g.nodes) > 0 THEN "centrality" ELSE "empty"

\* Lines 244-249, the per-column report: whether building it raises.  The
\* list comprehension of line 247 calls nunique() on every column of df,
\* keywords_norm among them.  The cells of that column are Python lists
\* (an empty list for a record without keywords); nunique() hashes the
\* cells and a list is unhashable, so the call raises TypeError as soon as
\* the column has a cell.  The statistics themselves are not modelled.
dq_raises(df_) == Len(df_) > 0

\* df.duplicated(subset=["co_name", "city"], keep=False)
duplicated(df_) ==
    [i \in 1..Len(df_) |->
        \E j \in 1..Len(df_) :
            j # i /\ df_[j].co_name = df_[i].co_name /\ df_[j].city = df_[i].city]


\* ----------------------------------------------------------------- state
VARIABLES
    csv,          \* the table pd.read_csv returns for the data file
    cache,        \* st.cache_data's entry for get_data: <<>> or <<frame>>
    df,           \* df of the latest script run
    sel_cities,   \* value of the City multiselect
    sel_services, \* value of the Service/Keyword multiselect
    sel_min,      \* lower end of the Lead Score Range slider
    sel_max,      \* upper end of the Lead Score Range slider
    error,        \* the exception that ended the latest run, or "none"
    filtered_df,  \* filtered_df of the latest run
    city_counts,  \* Overview tab: city -> number of rows
    G,            \* Network tab: the graph
    network,      \* Network tab: "centrality", "empty", or "none" (not run)
    dupes         \* Data Quality tab: the duplicate flag of every row of df,
                  \* <<>> when line 252 was not reached

vars == <<csv, cache, df, sel_cities, sel_services, sel_min, sel_max,
          error, filtered_df, city_counts, G, network, dupes>>

loaded == cache # <<>>

\* Lines 94-255 of one script run, with the widget values it read.  src is
\* the frame handed to apply_filters.  An uncaught exception ends the run:
\* nothing after the line that raised is computed.  The pandas calls are
\* those of pandas 1.x, for which line 165 is written.
\* st.session_state["filters"] (line 104) is written and never read, and is
\* left out, as are the charts, the lead list and the map, which no later
\* line reads.
Render(src, cities, services, lo, hi) ==
    LET res == apply_filters(src, cities, services, lo, hi)
    IN  /\ sel_cities' = cities
        /\ sel_services' = services
        /\ sel_min' = lo
        /\ sel_max' = hi
        /\ IF res.raised
           THEN /\ error' = "KeyError"
                /\ filtered_df' = <<>>
                /\ city_counts' = <<>>
                /\ G' = EmptyGraph
                /\ network' = "none"
                /\ dupes' = <<>>
           ELSE /\ filtered_df' = res.out
                /\ city_counts' = value_counts(res.out)
                /\ G' = build_graph(res.out, Len(res.out))
                /\ network' = network_step(G')
                /\ IF dq_raises(df')
                   THEN /\ error' = "TypeError"
                        /\ dupes' = <<>>
                   ELSE /\ error' = "none"
                        /\ dupes' = duplicated(df')

\* The first run of the script: get_data misses the cache and calls
\* load_data; every widget takes its default.
OpenPage ==
    /\ cache = <<>>
    /\ cache' = <<load_data(csv)>>
    /\ df' = cache'[1]
    /\ UNCHANGED csv
    /\ Render(df', all_cities(df'), all_services(df'), min_ls(df'), max_ls(df'))

\* A later run: get_data returns the cached frame.
Rerun(cities, services, lo, hi) ==
    /\ loaded
    /\ df' = cache[1]
    /\ UNCHANGED <<csv, cache>>
    /\ Render(df', cities, services, lo, hi)

\* the new view is cut out of the view on screen, not out of the table
SelectCitiesPatched(S) ==
    /\ loaded
    /\ S # sel_cities
    /\ df' = cache[1]
    /\ UNCHANGED <<csv, cache>>
    /\ Render(filtered_df, S, sel_services, sel_min, sel_max)

\* the user changes the City multiselect
SelectCities(S) ==
    /\ S # sel_cities
    /\ Rerun(S, sel_services, sel_min, sel_max)

\* the user changes the Service/Keyword multiselect
SelectServices(S) ==
    /\ S # sel_services
    /\ Rerun(sel_cities, S, sel_min, sel_max)

\* the slider positions the model tries: every score of the table and the
\* value just above it
ScoreStops(df_) ==
    LET sc == {r.lead_score : r \in Rows(df_)}
    IN  {v \in sc \cup {s + 1 : s \in sc} : v <= max_ls(df_)}

\* the user moves the Lead Score Range slider
SetScoreRange(lo, hi) ==
    /\ lo <= hi
    /\ <<lo, hi>> # <<sel_min, sel_max>>
    /\ Rerun(sel_cities, sel_services, lo, hi)

Next ==
    \/ OpenPage
    \/ \E S \in SUBSET all_cities(df) : SelectCities(S)
    \/ \E S \in SUBSET all_services(df) : SelectServices(S)
    \/ \E lo \in ScoreStops(df) : \E hi \in ScoreStops(df) : SetScoreRange(lo, hi)

\* ----------------------------------------------------------------- inputs
Acme == <<"A","c","m","e">>
Beta == <<"B","e","t","a">>
Delhi == <<"D","e","l","h","i">>
Pune == <<"P","u","n","e">>
GoodEmail == <<"a","@","a",".","c","o","m">>
Phone7 == <<"1","2","3","4","5","6","7">>
Phone6 == <<"1","2","3","4","5","6">>
Site == <<"d",".","i","n">>
TaxAudit == <<"t","a","x",",","a","u","d","i","t">>
TaxBlank == <<"T","a","x"," ",","," ">>
ExampleKw == <<"a",","," ","b"," ",",",",","c">>

\* the rows the dashboard tables are drawn from: the three rows of the
\* end-to-end example, and a company that is named like a city and has no
\* contact channel but a website
RawRows ==
    { [co_name |-> Acme, contact |-> NaN, email |-> GoodEmail, phone |-> Phone7,
       city |-> Delhi, website |-> NaN, keywords |-> TaxAudit],
      [co_name |-> Beta, contact |-> NaN, email |-> NaN, phone |-> NaN,
       city |-> Delhi, website |-> NaN, keywords |-> NaN],
      [co_name |-> Acme, contact |-> NaN, email |-> NaN, phone |-> NaN,
       city |-> Delhi, website |-> NaN, keywords |-> NaN],
      [co_name |-> Delhi, contact |-> Acme, email |-> NaN, phone |-> NaN,
       city |-> Pune, website |-> Site, keywords |-> TaxBlank] }

Tables == UNION {[1..n -> RawRows] : n \in 1..MaxRows}

KwAlphabet == {"a", "B", ",", " "}

RECURSIVE Repeated(_)
Repeated(n) == IF n = 1 THEN <<"a">> ELSE Repeated(n - 1) \o <<",", "a">>

KeywordTexts ==
    {NaN, NA, ExampleKw}
    \cup UNION {[1..n -> KwAlphabet] : n \in 0..MaxKwLen}
    \cup {Repeated(n) : n \in 1..MaxTokens}

EmailTexts ==
    { NaN, NA, GoodEmail, NoEmail,
      <<"a","@","b">>, <<"@","b",".","c">>, <<"a","@",".","c">>,
      <<"a"," ","b","@","c",".","d">>, <<"a","@","b",".","c","\n">>,
      <<"a","@","b","@","c",".","d">> }

PhoneTexts == {NaN, NA, Phone6, Phone7}

WebsiteTexts == {NaN, NA, Site, NoWebsite, <<"d","i","n">>}

\* one-row tables over every combination of the cell values; the file has
\* no contact column
LoadTables ==
    { << [co_name |-> Acme, contact |-> NA, email |-> e, phone |-> p,
          city |-> Delhi, website |-> w, keywords |-> k] >> :
        e \in EmailTexts, p \in PhoneTexts, w \in WebsiteTexts, k \in KeywordTexts }

\* before the page is opened
InitWith(tables) ==
    /\ csv \in tables
    /\ cache = <<>>
    /\ df = <<>>
    /\ sel_cities = {}
    /\ sel_services = {}
    /\ sel_min = 0
    /\ sel_max = 0
    /\ error = "none"
    /\ filtered_df = <<>>
    /\ city_counts = <<>>
    /\ G = EmptyGraph
    /\ network = "none"
    /\ dupes = <<>>

Init == InitWith(Tables)

Spec == Init /\ [][Next]_vars

\* load_data alone, on one-row tables over a wide range of cell texts
InitLoad == InitWith(LoadTables)

NextLoad == OpenPage

SpecLoad == InitLoad /\ [][NextLoad]_vars


\* ---------------------------------------------------------------- claims
\* the latest script run got past apply_filters: there is a view, and the
\* Overview and Network tabs were rendered from it
HasView == loaded /\ error # "KeyError"

View == Rows(filtered_df)

Tokens(r) == {r.keywords_norm[k] : k \in 1..Len(r.keywords_norm)}

RECURSIVE SumOver(_, _)
SumOver(f, S) ==
    IF S = {} THEN 0
    ELSE LET x == CHOOSE y \in S : TRUE IN f[x] + SumOver(f, S \ {x})

\* the three predicates of the Filter Engine, ANDed, in row order
ExpectedView(t, cities, services, lo, hi) ==
    SelectSeq(t, LAMBDA r :
        /\ r.city \in cities
        /\ (services = {} \/ Tokens(r) \cap services # {})
        /\ lo <= r.lead_score
        /\ r.lead_score <= hi)

\* C1: for every table, city selection, keyword selection and score range,
\* apply_filters returns exactly the rows whose city is selected, that carry
\* a selected keyword (or any row, when no keyword is selected) and whose
\* lead_score lies in [min, max], in their original order.
C1_FilterContract ==
    loaded =>
        /\ error # "KeyError"
        /\ filtered_df = ExpectedView(df, sel_cities, sel_services, sel_min, sel_max)

\* C3: an empty city selection yields an empty view; an empty keyword
\* selection yields the view of the city and score predicates alone.
C3_EmptySelections ==
    loaded =>
        /\ sel_cities = {} => (error # "KeyError" /\ filtered_df = <<>>)
        /\ sel_services = {} =>
              /\ error # "KeyError"
              /\ filtered_df = SelectSeq(df, LAMBDA r :
                     /\ r.city \in sel_cities
                     /\ sel_min <= r.lead_score
                     /\ r.lead_score <= sel_max)

\* the positions that delimit the comma-separated fields of s
Cuts(s) == {0, Len(s) + 1} \cup {i \in 1..Len(s) : s[i] = ","}
NextCut(s, p) == MinOf({c \in Cuts(s) : c > p})
\* the non-blank positions of the field that starts after the cut p
Inked(s, p) == {i \in (p + 1)..(NextCut(s, p) - 1) : ~IsSpace(s[i])}

\* the number of non-empty comma-separated tokens of a keywords cell
TokenCount(v) ==
    IF isna(v) THEN 0
    ELSE Cardinality({p \in Cuts(v) \ {Len(v) + 1} : Inked(v, p) # {}})

\* C2: lead_score = 40*has_email + 30*has_phone + 20*has_website
\* + min(10, number of non-empty keyword tokens), with has_phone = (phone
\* longer than 6), has_website = (a dot, and not the sentinel), has_email =
\* (the pattern matches); so lead_score is an integer in 0..100, missing
\* cells included.
C2_LeadScore ==
    loaded =>
        \A i \in 1..Len(df) :
            LET r == df[i]
                n == TokenCount(csv[i].keywords)
            IN  /\ r.has_phone = (Len(r.phone) > 6)
                /\ r.has_website = (contains_dot(r.website) /\ r.website # NoWebsite)
                /\ r.has_email = email_match(r.email)
                /\ r.lead_score = 40 * Bool2Int(r.has_email)
                                  + 30 * Bool2Int(r.has_phone)
                                  + 20 * Bool2Int(r.has_website)
                                  + (IF n > 10 THEN 10 ELSE n)
                /\ r.lead_score \in 0..100

\* a record with every channel and more than ten tokens scores 100
C2_Witness ==
    /\ loaded
    /\ \E i \in 1..Len(df) :
          /\ TokenCount(csv[i].keywords) > 10
          /\ df[i].has_email /\ df[i].has_phone /\ df[i].has_website
          /\ df[i].lead_score = 100

\* the tokens of s from the field after the cut p on: lowercased, trimmed,
\* empty ones dropped, in order
RECURSIVE TokensFrom(_, _)
TokensFrom(s, p) ==
    LET q    == NextCut(s, p)
        ink  == Inked(s, p)
        here == IF ink = {} THEN <<>>
                ELSE << [i \in 1..(MaxOf(ink) - MinOf(ink) + 1) |->
                            lower_char(s[MinOf(ink) + i - 1])] >>
    IN  IF q = Len(s) + 1 THEN here ELSE here \o TokensFrom(s, q)

ExpectedNorm(v) == IF isna(v) THEN <<>> ELSE TokensFrom(v, 0)

\* C7: keywords_norm is the keywords text split on commas, lowercased,
\* trimmed, without the empty tokens, order and repetitions kept ("a, b ,,c"
\* gives a, b, c); a missing or empty cell gives the empty sequence; its
\* length is the token count of lead_score before the cap.
C7_KeywordsNorm ==
    loaded =>
        \A i \in 1..Len(df) :
            LET r == df[i]
                k == csv[i].keywords
            IN  /\ r.keywords_norm = ExpectedNorm(k)
                /\ k \in {NaN, NA, <<>>} => r.keywords_norm = <<>>
                /\ k = ExampleKw => r.keywords_norm = << <<"a">>, <<"b">>, <<"c">> >>
                /\ Len(r.keywords_norm) = keyword_count(fillna(k, <<>>))
                /\ r.lead_score - 40 * Bool2Int(r.has_email)
                                - 30 * Bool2Int(r.has_phone)
                                - 20 * Bool2Int(r.has_website)
                   = (IF Len(r.keywords_norm) > 10 THEN 10 ELSE Len(r.keywords_norm))

\* the example text has been normalised
C7_Witness ==
    /\ loaded
    /\ csv[1].keywords = ExampleKw
    /\ df[1].keywords_norm = << <<"a">>, <<"b">>, <<"c">> >>


\* C4: a row of the full table is flagged as a duplicate exactly when some
\* other row has the same (co_name, city); both rows of a pair are flagged,
\* a row with a unique pair is not, whatever the filter selection.
C4_DuplicatesSymmetric ==
    loaded =>
        \A i \in 1..Len(df) :
            (i \in DOMAIN dupes /\ dupes[i]) <=>
                Cardinality({j \in 1..Len(df) :
                    <<df[j].co_name, df[j].city>> = <<df[i].co_name, df[i].city>>}) >= 2

IsPrefixed(x, pre) == Len(x) >= Len(pre) /\ SubSeq(x, 1, Len(pre)) = pre

\* C5: the graph of a view has one "city::" node per distinct city, one
\* "co::" node per distinct company name and one edge per distinct (company,
\* city) pair of the view; every edge joins a city node and a company node;
\* there is nothing else.
C5_BipartiteGraph ==
    HasView =>
        LET cities == {r.city : r \in View}
            names  == {r.co_name : r \in View}
            pairs  == {<<r.co_name, r.city>> : r \in View}
            cityNodes == {x \in G.nodes : IsPrefixed(x, <<"c","i","t","y",":",":">>)}
            compNodes == {x \in G.nodes : IsPrefixed(x, <<"c","o",":",":">>)}
        IN  /\ cityNodes = {<<"c","i","t","y",":",":">> \o c : c \in cities}
            /\ compNodes = {<<"c","o",":",":">> \o n : n \in names}
            /\ Cardinality(cityNodes) = Cardinality(cities)
            /\ Cardinality(compNodes) = Cardinality(names)
            /\ G.nodes = cityNodes \cup compNodes
            /\ cityNodes \cap compNodes = {}
            /\ \A x \in cityNodes : G.type[x] = "city"
            /\ \A x \in compNodes : G.type[x] = "company"
            /\ G.edges = {{<<"c","i","t","y",":",":">> \o p[2],
                           <<"c","o",":",":">> \o p[1]} : p \in pairs}
            /\ Cardinality(G.edges) = Cardinality(pairs)
            /\ \A e \in G.edges :
                  \E u \in cityNodes : \E v \in compNodes : e = {u, v}

\* a view in which a (company, city) pair occurs twice and a company is
\* named like a city of the view
C5_Witness ==
    /\ HasView
    /\ \E i \in 1..Len(filtered_df) : \E j \in 1..Len(filtered_df) :
          /\ i < j
          /\ filtered_df[i].co_name = filtered_df[j].co_name
          /\ filtered_df[i].city = filtered_df[j].city
    /\ \E r \in View : \E q \in View : r.co_name = q.city
    /\ Cardinality(G.edges) < Len(filtered_df)

\* C6: on an empty view the Network tab reports the empty network and does
\* not compute centrality; centrality is computed exactly when the view has
\* a record, and never on a graph without nodes.
C6_CentralityGuard ==
    HasView =>
        /\ filtered_df = <<>> => network = "empty"
        /\ network = "centrality" <=> Len(filtered_df) >= 1
        /\ network = "centrality" => G.nodes # {}

\* a run that ended with an empty view
C6_Witness ==
    /\ HasView
    /\ filtered_df = <<>>
    /\ G.nodes = {}
    /\ network = "empty"

\* C8: the per-city counts of a view cover every record once: they sum to
\* the number of records and each is the number of records of its city.
C8_CityCounts ==
    HasView =>
        /\ DOMAIN city_counts = {r.city : r \in View}
        /\ SumOver(city_counts, DOMAIN city_counts) = Len(filtered_df)
        /\ \A c \in DOMAIN city_counts :
              city_counts[c] = Cardinality({i \in 1..Len(filtered_df) : filtered_df[i].city = c})

\* a view with two cities, one of them with two records of one company
C8_Witness ==
    /\ HasView
    /\ Cardinality(DOMAIN city_counts) = 2
    /\ \E c \in DOMAIN city_counts : city_counts[c] = 2
    /\ \E i \in 1..Len(filtered_df) : \E j \in 1..Len(filtered_df) :
          /\ i < j
          /\ filtered_df[i].co_name = filtered_df[j].co_name
          /\ filtered_df[i].city = filtered_df[j].city

\* the outcome of the latest run is that of apply_filters on df with the
\* selections now on screen
ViewIsFresh ==
    LET res == apply_filters(df, sel_cities, sel_services, sel_min, sel_max)
    IN  /\ (error = "KeyError") = res.raised
        /\ filtered_df = res.out

\* C9: after any sequence of filter changes the full table is the one that
\* was loaded, and the view is apply_filters of that table with the current
\* selections only.
C9_ViewFromScratch ==
    [][ /\ loaded => (df' = df /\ cache' = cache /\ csv' = csv)
        /\ loaded' => (df' = cache'[1] /\ ViewIsFresh') ]_vars

\* every control has been moved away from its default, and the view is
\* neither empty nor the full table
C9_Witness ==
    /\ HasView
    /\ sel_cities # all_cities(df)
    /\ sel_services # all_services(df)
    /\ sel_min # min_ls(df)
    /\ sel_max # max_ls(df)
    /\ filtered_df # <<>>
    /\ filtered_df # df

DefaultControls ==
    /\ sel_cities = all_cities(df)
    /\ sel_services = all_services(df)
    /\ sel_min = min_ls(df)
    /\ sel_max = max_ls(df)

HasKeywords(r) == r.keywords_norm # <<>>

\* C10 as stated: with a keyword selected every record of the view has a
\* keyword token; a record without keywords is in the view only when no
\* keyword is selected; under the default controls the view is the full
\* table minus the records without keywords.
C10_Original ==
    HasView =>
        /\ sel_services # {} => \A r \in View : HasKeywords(r)
        /\ \A r \in View : ~HasKeywords(r) => sel_services = {}
        /\ DefaultControls => filtered_df = SelectSeq(df, HasKeywords)

\* C10 as amended: the same, except that under the default controls the
\* view is the full table minus the records without keywords when some
\* record has a keyword, and the full table when none has (the default
\* keyword selection is then empty).
C10_KeywordlessHidden ==
    HasView =>
        /\ sel_services # {} => \A r \in View : HasKeywords(r)
        /\ \A r \in View : ~HasKeywords(r) => sel_services = {}
        /\ (DefaultControls /\ all_services(df) # {}) =>
              filtered_df = SelectSeq(df, HasKeywords)
        /\ (DefaultControls /\ all_services(df) = {}) => filtered_df = df

\* under the default controls a record without keywords is missing from
\* the view
C10_Witness ==
    /\ HasView
    /\ DefaultControls
    /\ sel_services # {}
    /\ filtered_df # <<>>
    /\ \E r \in Rows(df) : ~HasKeywords(r) /\ r \notin View

====
